---------------------------- MODULE Spec2Model ----------------------------
(***************************************************************************)
(* Model of feckmore/github-api (src/main.go): an HTTP facade over the     *)
(* GitHub API client.  main builds the client handle (New), the router     *)
(* (NewRouter) and serves; each request is matched by the router against   *)
(* the three route templates and handed to GetCount, CommitComment or      *)
(* PullComment, which call the remote API and write the response through   *)
(* the http.ResponseWriter, using WriteError for the error envelope.       *)
(*                                                                         *)
(* Strings that the code inspects character by character (URL paths, the   *)
(* numeric path segments) are sequences of one-character strings.  The     *)
(* handlers share only the read-only handle, so requests are served one    *)
(* at a time: interleaving two of them can change neither's outcome.       *)
(***************************************************************************)
EXTENDS Integers, Sequences, FiniteSets, TLC

VARIABLES
    pc,        \* position of main: "start", "checked", "routed", "listening", "fatal"
    writer,    \* the http.ResponseWriter handlers get: "server" or "faulty"
    data,      \* the *datastore main holds (data.isNil: the nil pointer)
    newErr,    \* the error New returned to main
    router,    \* the routes registered by NewRouter (<<>> before it ran)
    phase,     \* "idle", "received" (a request is in), "done" (its handler returned)
    req,       \* the request being served
    handler,   \* the handler the router dispatched the request to
    w,         \* the response of the request
    trace,     \* the fallible steps the handler executed, in order
    remote     \* what the remote API answered in this request

vars == <<pc, writer, data, newErr, router, phase, req, handler, w, trace, remote>>

----------------------------------------------------------------------------
(* Bounds and program constants *)

\* Largest number of repositories the remote API returns on one page.
MaxRepos == 11

\* http.StatusOK, http.StatusInternalServerError, http.StatusNotFound,
\* http.StatusMethodNotAllowed as used by the handlers, server and router.
StatusOK == 200
StatusInternalServerError == 500
StatusNotFound == 404
StatusMethodNotAllowed == 405

NoErr == "<nil>"

ContentTypeJSON == "application/json; charset=utf-8"

----------------------------------------------------------------------------
(* Character strings *)

Digits == {"0", "1", "2", "3", "4", "5", "6", "7", "8", "9"}

DigitVal(c) ==
    CASE c = "0" -> 0 [] c = "1" -> 1 [] c = "2" -> 2 [] c = "3" -> 3
      [] c = "4" -> 4 [] c = "5" -> 5 [] c = "6" -> 6 [] c = "7" -> 7
      [] c = "8" -> 8 [] c = "9" -> 9

DigitChar(d) ==
    CASE d = 0 -> "0" [] d = 1 -> "1" [] d = 2 -> "2" [] d = 3 -> "3"
      [] d = 4 -> "4" [] d = 5 -> "5" [] d = 6 -> "6" [] d = 7 -> "7"
      [] d = 8 -> "8" [] d = 9 -> "9"

S_octocat == <<"o", "c", "t", "o", "c", "a", "t">>
S_repos   == <<"r", "e", "p", "o", "s">>
S_pulls   == <<"p", "u", "l", "l", "s">>
S_count   == <<"c", "o", "u", "n", "t">>
S_comment == <<"c", "o", "m", "m", "e", "n", "t">>
S_myrepo  == <<"m", "y", "r", "e", "p", "o">>
S_abc123  == <<"a", "b", "c", "1", "2", "3">>
S_maingo  == <<"m", "a", "i", "n", ".", "g", "o">>
S_srcmaingo == <<"s", "r", "c", "/", "m", "a", "i", "n", ".", "g", "o">>
S_42      == <<"4", "2">>
S_5       == <<"5">>

\* strings.Join(segs, "/") with a leading "/": the URL path of a request.
RECURSIVE JoinPath(_)
JoinPath(segs) ==
    IF segs = <<>> THEN <<>>
    ELSE <<"/">> \o Head(segs) \o JoinPath(Tail(segs))

\* The segments of a URL path: the text between its slashes, after the first.
RECURSIVE SplitFrom(_, _)
SplitFrom(s, cur) ==
    IF s = <<>> THEN <<cur>>
    ELSE IF Head(s) = "/" THEN <<cur>> \o SplitFrom(Tail(s), <<>>)
    ELSE SplitFrom(Tail(s), Append(cur, Head(s)))

SplitPath(p) ==
    IF p = <<>> \/ Head(p) # "/" THEN <<>> ELSE SplitFrom(Tail(p), <<>>)

\* strconv.Atoi followed by "number, _ :=": the parsed value, 0 on a syntax
\* error.  The inputs stay below 19 digits, where Atoi cannot overflow.
RECURSIVE ParseDigits(_, _)
ParseDigits(s, acc) ==
    IF s = <<>> THEN acc ELSE ParseDigits(Tail(s), 10 * acc + DigitVal(Head(s)))

AllDigits(s) == s # <<>> /\ \A i \in 1..Len(s) : s[i] \in Digits

Atoi(s) ==
    IF s = <<>> THEN 0
    ELSE IF Head(s) \in {"+", "-"}
         THEN IF AllDigits(Tail(s))
              THEN (IF Head(s) = "-" THEN 0 - ParseDigits(Tail(s), 0)
                    ELSE ParseDigits(Tail(s), 0))
              ELSE 0
    ELSE IF AllDigits(s) THEN ParseDigits(s, 0) ELSE 0

\* The decimal text json.Encoder writes for a non-negative int.
RECURSIVE Itoa(_)
Itoa(n) ==
    IF n < 10 THEN <<DigitChar(n)>> ELSE Itoa(n \div 10) \o <<DigitChar(n % 10)>>


----------------------------------------------------------------------------
(* Router: mux.NewRouter with the three routes of NewRouter *)

Lit(text) == [kind |-> "lit", text |-> text, name |-> "", pat |-> ""]
PathVar(name, pat) == [kind |-> "var", text |-> <<>>, name |-> name, pat |-> pat]

\* The default pattern of a {name} variable and the pattern given as {name:[0-9]+}.
AnySegment == "[^/]+"
Numeric == "[0-9]+"

CountTemplate ==
    <<PathVar("owner", AnySegment), Lit(S_repos), Lit(S_count)>>

CommitTemplate ==
    <<PathVar("owner", AnySegment), Lit(S_repos), PathVar("repo", AnySegment),
      PathVar("commit", AnySegment), Lit(S_comment)>>

PullTemplate ==
    <<PathVar("owner", AnySegment), Lit(S_pulls), PathVar("number", Numeric),
      PathVar("commit", AnySegment), PathVar("path", AnySegment),
      PathVar("position", Numeric), Lit(S_comment)>>

\* The pull route without the [0-9]+ patterns on number and position.
PullTemplateUnchecked ==
    <<PathVar("owner", AnySegment), Lit(S_pulls), PathVar("number", AnySegment),
      PathVar("commit", AnySegment), PathVar("path", AnySegment),
      PathVar("position", AnySegment), Lit(S_comment)>>

NewRouterUnchecked ==
    << [method |-> "GET",  tmpl |-> CountTemplate,  handler |-> "GetCount"],
       [method |-> "POST", tmpl |-> CommitTemplate, handler |-> "CommitComment"],
       [method |-> "POST", tmpl |-> PullTemplateUnchecked, handler |-> "PullComment"] >>

NewRouter ==
    << [method |-> "GET",  tmpl |-> CountTemplate,  handler |-> "GetCount"],
       [method |-> "POST", tmpl |-> CommitTemplate, handler |-> "CommitComment"],
       [method |-> "POST", tmpl |-> PullTemplate,   handler |-> "PullComment"] >>

\* One element of a route template against one path segment: a literal matches
\* itself, a variable a non-empty slash-free segment that fits its pattern.
MatchSegment(el, seg) ==
    IF el.kind = "lit" THEN seg = el.text
    ELSE /\ seg # <<>>
         /\ el.pat = Numeric => AllDigits(seg)

\* The anchored regular expression mux compiles a template to, on a URL path.
PathMatches(tmpl, path) ==
    LET segs == SplitPath(path)
    IN /\ Len(segs) = Len(tmpl)
       /\ \A i \in 1..Len(tmpl) : MatchSegment(tmpl[i], segs[i])

\* mux.Vars(r) for a matched route: variable name -> path segment.
RouteVars(tmpl, path) ==
    LET segs == SplitPath(path)
        idx(n) == CHOOSE i \in 1..Len(tmpl) : tmpl[i].kind = "var" /\ tmpl[i].name = n
    IN [n \in {tmpl[i].name : i \in {j \in 1..Len(tmpl) : tmpl[j].kind = "var"}}
          |-> segs[idx(n)]]

\* vars["k"] on a Go map: the zero value "" for a key that is not there.
Var(vs, k) == IF k \in DOMAIN vs THEN vs[k] ELSE <<>>

\* Router.Match: the first route, in registration order, whose method and path
\* both match.
RouteMatches(rt, r) == rt.method = r.method /\ PathMatches(rt.tmpl, r.path)

Match(routes, r) ==
    LET hits == {i \in 1..Len(routes) : RouteMatches(routes[i], r)}
    IN IF hits = {} THEN [handler |-> "none", vars |-> << >>]
       ELSE LET i == CHOOSE k \in hits : \A j \in hits : k <= j
            IN [handler |-> routes[i].handler,
                vars |-> RouteVars(routes[i].tmpl, r.path)]

\* What the router answers when no route matches: 404, or, in the versions of
\* mux that report it, 405 when only the method kept a route from matching.
NoRouteStatus(routes, r) ==
    IF \E i \in 1..Len(routes) : PathMatches(routes[i].tmpl, r.path)
    THEN {StatusNotFound, StatusMethodNotAllowed}
    ELSE {StatusNotFound}

----------------------------------------------------------------------------
(* http.ResponseWriter *)

NewResponse ==
    [wroteHeader |-> FALSE, status |-> 0, contentType |-> "", sentContentType |-> "",
     body |-> <<>>, byServer |-> FALSE]

HeaderSet(rw, ct) == [rw EXCEPT !.contentType = ct]

\* w.WriteHeader: the first call sends status and headers, a later one is ignored.
WriteHeader(rw, code) ==
    IF rw.wroteHeader THEN rw
    ELSE [rw EXCEPT !.wroteHeader = TRUE, !.status = code,
                    !.sentContentType = rw.contentType]

\* w.Write: sends the header with 200 if none was sent, then the data if the
\* write succeeds.
Write(rw, chunk, ok) ==
    LET h == WriteHeader(rw, StatusOK)
    IN IF ok THEN [h EXCEPT !.body = Append(@, chunk)] ELSE h

\* The server, after the handler returned: a response never written to goes
\* out with 200 and no body (byServer: the handler itself sent nothing).
FinishRequest(rw) ==
    IF rw.wroteHeader THEN rw
    ELSE [WriteHeader(rw, StatusOK) EXCEPT !.byServer = TRUE]

\* What json.Encoder.Encode writes: a number as its decimal text and a newline,
\* the error map as an object with its keys.
JSONInt(n) == [json |-> "number", text |-> Itoa(n) \o <<"\n">>]
JSONErrorMap(msg) == [json |-> "object", keys |-> {"error"}, error |-> msg]
PlainText(t) == [json |-> "none", text |-> t]

\* json.NewEncoder(w).Encode(v): one Write; its error is the Write's.
Encode(rw, chunk, ok) ==
    [w |-> Write(rw, chunk, ok), err |-> IF ok THEN NoErr ELSE "write failed"]

----------------------------------------------------------------------------
(* WriteError *)

\* WriteError that never reports the error as handled.
WriteErrorNoReturn(rw, err, ok) ==
    IF err # NoErr
    THEN LET h == WriteHeader(rw, StatusInternalServerError)
             e == Encode(h, JSONErrorMap(err), ok)
         IN [w |-> e.w, handled |-> FALSE,
             steps |-> <<[op |-> "WriteError", err |-> err, before |-> rw,
                          after |-> e.w, ret |-> FALSE]>>]
    ELSE [w |-> rw, handled |-> FALSE,
          steps |-> <<[op |-> "WriteError", err |-> NoErr, before |-> rw,
                       after |-> rw, ret |-> FALSE]>>]

\* WriteError that leaves the status to the first Write.
WriteErrorNoStatus(rw, err, ok) ==
    IF err # NoErr
    THEN LET e == Encode(rw, JSONErrorMap(err), ok)
         IN [w |-> e.w, handled |-> TRUE,
             steps |-> <<[op |-> "WriteError", err |-> err, before |-> rw,
                          after |-> e.w, ret |-> TRUE]>>]
    ELSE [w |-> rw, handled |-> FALSE,
          steps |-> <<[op |-> "WriteError", err |-> NoErr, before |-> rw,
                       after |-> rw, ret |-> FALSE]>>]

\* The result is the response after the call, the bool returned, and the call
\* as a step of the trace.
WriteError(rw, err, ok) ==
    IF err # NoErr
    THEN LET h == WriteHeader(rw, StatusInternalServerError)
             e == Encode(h, JSONErrorMap(err), ok)
         IN [w |-> e.w, handled |-> TRUE,
             steps |-> <<[op |-> "WriteError", err |-> err, before |-> rw,
                          after |-> e.w, ret |-> TRUE]>>]
    ELSE [w |-> rw, handled |-> FALSE,
          steps |-> <<[op |-> "WriteError", err |-> NoErr, before |-> rw,
                       after |-> rw, ret |-> FALSE]>>]

----------------------------------------------------------------------------
(* Client handle: New, and the check main makes on its result *)

NilData == [isNil |-> TRUE, Context |-> "nil", Client |-> "nil", Service |-> "nil"]

\* New(authToken).  tc and client are what oauth2.NewClient and
\* github.NewClient returned ("nil" or not).
New(authToken, tc, client) ==
    IF tc = "nil" THEN [data |-> NilData, err |-> "Access Token Invalid"]
    ELSE IF client = "nil"
         THEN [data |-> NilData, err |-> "Error creating Github client"]
    ELSE [data |-> [isNil |-> FALSE, Context |-> "Background", Client |-> client,
                    Service |-> "client.Git"],
          err |-> NoErr]

\* main without the check of line 30: it goes on whatever New returned.
MainRefusesNothing(d, err) == FALSE

\* err != nil || data == nil || data.Client == nil
MainRefuses(d, err) == err # NoErr \/ d.isNil \/ d.Client = "nil"

----------------------------------------------------------------------------
(* Handlers.  Each takes the route variables, the answers of the remote API  *)
(* and the response writer, and gives the response and the steps executed.   *)

UserOf(login) == [Login |-> login]

CommitMsg == "Commit message... replace me with message taken from request body."
PullMsg == "hard coded comment message"

\* GetCount that writes the count without setting the content type.
GetCountNoContentType(vs, rem, rw) ==
    LET owner == Var(vs, "owner")
        list  == [op |-> "Repositories.List", err |-> rem.listErr, owner |-> owner,
                  opt |-> "nil"]
        e1    == WriteError(rw, rem.listErr, rem.envelopeOK)
    IN IF e1.handled THEN [w |-> e1.w, trace |-> <<list>> \o e1.steps]
       ELSE LET enc == Encode(e1.w, JSONInt(rem.listN), rem.encodeOK)
                e2  == WriteError(enc.w, enc.err, rem.envelopeOK)
            IN [w |-> e2.w,
                trace |-> <<list>> \o e1.steps
                          \o <<[op |-> "Encode", err |-> enc.err]>> \o e2.steps]

\* rem.listN is len(repos): the length of the slice Repositories.List returned.
GetCount(vs, rem, rw) ==
    LET owner == Var(vs, "owner")
        list  == [op |-> "Repositories.List", err |-> rem.listErr, owner |-> owner,
                  opt |-> "nil"]
        e1    == WriteError(rw, rem.listErr, rem.envelopeOK)
    IN IF e1.handled THEN [w |-> e1.w, trace |-> <<list>> \o e1.steps]
       ELSE LET w1  == HeaderSet(e1.w, ContentTypeJSON)
                enc == Encode(w1, JSONInt(rem.listN), rem.encodeOK)
                e2  == WriteError(enc.w, enc.err, rem.envelopeOK)
            IN [w |-> e2.w,
                trace |-> <<list>> \o e1.steps
                          \o <<[op |-> "Encode", err |-> enc.err]>> \o e2.steps]

CommitComment(vs, rem, rw) ==
    LET owner  == Var(vs, "owner")
        repo   == Var(vs, "repo")
        commit == Var(vs, "commit")
        get    == [op |-> "Users.Get", err |-> rem.userErr, user |-> owner]
        e1     == WriteError(rw, rem.userErr, rem.envelopeOK)
    IN IF e1.handled THEN [w |-> e1.w, trace |-> <<get>> \o e1.steps]
       ELSE LET newComment == [CommitID |-> commit, User |-> UserOf(owner),
                               Body |-> CommitMsg, Position |-> 1]
                create == [op |-> "Repositories.CreateComment", err |-> rem.createErr,
                           owner |-> owner, repo |-> repo, sha |-> commit,
                           comment |-> newComment]
            IN [w |-> e1.w, trace |-> <<get>> \o e1.steps \o <<create>>]

\* PullComment that hands the comment-creation error to WriteError.
PullCommentReportingCreate(vs, rem, rw) ==
    LET owner    == Var(vs, "owner")
        repo     == Var(vs, "repo")
        number   == Atoi(Var(vs, "number"))
        commit   == Var(vs, "commit")
        path     == Var(vs, "path")
        position == Atoi(Var(vs, "position"))
        get      == [op |-> "Users.Get", err |-> rem.userErr, user |-> owner]
        e1       == WriteError(rw, rem.userErr, rem.envelopeOK)
    IN IF e1.handled THEN [w |-> e1.w, trace |-> <<get>> \o e1.steps]
       ELSE LET newComment == [Body |-> PullMsg, User |-> UserOf(owner), Path |-> path,
                               Position |-> position, CommitID |-> commit]
                create == [op |-> "PullRequests.CreateComment", err |-> rem.createErr,
                           owner |-> owner, repo |-> repo, number |-> number,
                           comment |-> newComment]
                e2 == WriteError(e1.w, rem.createErr, rem.envelopeOK)
            IN [w |-> e2.w, trace |-> <<get>> \o e1.steps \o <<create>> \o e2.steps]

\* The route gives no "repo" variable, so vars["repo"] is the empty string.
PullComment(vs, rem, rw) ==
    LET owner    == Var(vs, "owner")
        repo     == Var(vs, "repo")
        number   == Atoi(Var(vs, "number"))
        commit   == Var(vs, "commit")
        path     == Var(vs, "path")
        position == Atoi(Var(vs, "position"))
        get      == [op |-> "Users.Get", err |-> rem.userErr, user |-> owner]
        e1       == WriteError(rw, rem.userErr, rem.envelopeOK)
    IN IF e1.handled THEN [w |-> e1.w, trace |-> <<get>> \o e1.steps]
       ELSE LET newComment == [Body |-> PullMsg, User |-> UserOf(owner), Path |-> path,
                               Position |-> position, CommitID |-> commit]
                create == [op |-> "PullRequests.CreateComment", err |-> rem.createErr,
                           owner |-> owner, repo |-> repo, number |-> number,
                           comment |-> newComment]
            IN [w |-> e1.w, trace |-> <<get>> \o e1.steps \o <<create>>]

----------------------------------------------------------------------------
(* Inputs *)

Tokens == {"", "token"}
Methods == {"GET", "POST"}
Owners == {S_octocat}
RepoNames == {S_myrepo}
Commits == {S_abc123}
NumberTexts == {S_42, <<"0", "0", "7">>, <<"4", "a">>, <<"-", "5">>, <<"x">>}
PositionTexts == {S_5, <<"1", "0">>, <<"p">>, <<"5", "x">>}
FilePaths == {S_maingo, S_srcmaingo}
RemoteErrs == {"not found", "timeout"}

CountRequests ==
    {[method |-> m, path |-> JoinPath(<<o, S_repos, S_count>>), shape |-> "count",
      params |-> [owner |-> o]] : m \in Methods, o \in Owners}

CommitRequests ==
    {[method |-> m, path |-> JoinPath(<<o, S_repos, r, c, S_comment>>),
      shape |-> "commit", params |-> [owner |-> o, repo |-> r, commit |-> c]] :
        m \in Methods, o \in Owners, r \in RepoNames, c \in Commits}

PullRequests ==
    {[method |-> m, path |-> JoinPath(<<o, S_pulls, n, c, f, p, S_comment>>),
      shape |-> "pull",
      params |-> [owner |-> o, number |-> n, commit |-> c, path |-> f,
                  position |-> p]] :
        m \in Methods, o \in Owners, n \in NumberTexts, c \in Commits,
        f \in FilePaths, p \in PositionTexts}

OtherRequests ==
    {[method |-> m, path |-> JoinPath(<<o, S_repos>>), shape |-> "other",
      params |-> [owner |-> o]] : m \in Methods, o \in Owners}

Requests == CountRequests \cup CommitRequests \cup PullRequests \cup OtherRequests

NoRequest == [method |-> "", path |-> <<>>, shape |-> "none", params |-> [owner |-> <<>>]]

NoRemote ==
    [listErr |-> NoErr, listN |-> 0, userErr |-> NoErr, createErr |-> NoErr,
     encodeOK |-> TRUE, envelopeOK |-> TRUE]

\* Whether a Write on the response can fail.  The server's writer buffers the
\* few bytes these handlers write, so its Write returns no error.
WriteOutcomes == IF writer = "faulty" THEN BOOLEAN ELSE {TRUE}

Outcomes == RemoteErrs \cup {NoErr}

----------------------------------------------------------------------------
(* The process *)

InitCommon ==
    /\ pc = "start"
    /\ data = NilData
    /\ newErr = NoErr
    /\ router = <<>>
    /\ phase = "idle"
    /\ req = NoRequest
    /\ handler = "none"
    /\ w = NewResponse
    /\ trace = <<>>
    /\ remote = NoRemote

Init == writer = "server" /\ InitCommon

InitAnyWriter == writer \in {"server", "faulty"} /\ InitCommon

served == <<phase, req, handler, w, trace, remote>>

\* main, lines 29-32: New, then log.Fatal unless the handle is usable.
MainNew ==
    /\ pc = "start"
    /\ \E token \in Tokens, tc \in {"nil", "transport"}, client \in {"nil", "client"} :
         LET r == New(token, tc, client)
         IN /\ data' = r.data
            /\ newErr' = r.err
            /\ pc' = IF MainRefuses(r.data, r.err) THEN "fatal" ELSE "checked"
    /\ UNCHANGED <<writer, router, served>>

\* main, line 33.
MainNewRouter ==
    /\ pc = "checked"
    /\ router' = NewRouter
    /\ pc' = "routed"
    /\ UNCHANGED <<writer, data, newErr, served>>

\* main, lines 36-38: ListenAndServe either serves or returns its error to
\* log.Fatal.
MainListen ==
    /\ pc = "routed"
    /\ \E ok \in BOOLEAN : pc' = IF ok THEN "listening" ELSE "fatal"
    /\ UNCHANGED <<writer, data, newErr, router, served>>

\* The server accepts a request and gives it a fresh response writer.
Receive ==
    /\ pc = "listening"
    /\ phase \in {"idle", "done"}
    /\ \E r \in Requests : req' = r
    /\ phase' = "received"
    /\ handler' = "none"
    /\ w' = NewResponse
    /\ trace' = <<>>
    /\ remote' = NoRemote
    /\ UNCHANGED <<pc, writer, data, newErr, router>>

Respond(h, rem, out) ==
    /\ handler' = h
    /\ remote' = rem
    /\ w' = FinishRequest(out.w)
    /\ trace' = out.trace
    /\ phase' = "done"
    /\ UNCHANGED <<pc, writer, data, newErr, router, req>>

ServeGetCount ==
    /\ pc = "listening" /\ phase = "received"
    /\ Match(router, req).handler = "GetCount"
    /\ \E le \in Outcomes, n \in 0..MaxRepos, eo \in WriteOutcomes, vo \in WriteOutcomes :
         LET rem == [NoRemote EXCEPT !.listErr = le,
                                     !.listN = IF le = NoErr THEN n ELSE 0,
                                     !.encodeOK = eo, !.envelopeOK = vo]
         IN Respond("GetCount", rem, GetCount(Match(router, req).vars, rem, NewResponse))

ServeCommitComment ==
    /\ pc = "listening" /\ phase = "received"
    /\ Match(router, req).handler = "CommitComment"
    /\ \E ue \in Outcomes, ce \in Outcomes, vo \in WriteOutcomes :
         LET rem == [NoRemote EXCEPT !.userErr = ue, !.createErr = ce, !.envelopeOK = vo]
         IN Respond("CommitComment", rem,
                    CommitComment(Match(router, req).vars, rem, NewResponse))

ServePullComment ==
    /\ pc = "listening" /\ phase = "received"
    /\ Match(router, req).handler = "PullComment"
    /\ \E ue \in Outcomes, ce \in Outcomes, vo \in WriteOutcomes :
         LET rem == [NoRemote EXCEPT !.userErr = ue, !.createErr = ce, !.envelopeOK = vo]
         IN Respond("PullComment", rem,
                    PullComment(Match(router, req).vars, rem, NewResponse))

\* No route matches: the router's own handler answers.
ServeNoRoute ==
    /\ pc = "listening" /\ phase = "received"
    /\ Match(router, req).handler = "none"
    /\ \E st \in NoRouteStatus(router, req) :
         Respond("none", NoRemote,
                 [w |-> Write(WriteHeader(NewResponse, st), PlainText("no route"), TRUE),
                  trace |-> <<>>])

Next ==
    \/ MainNew
    \/ MainNewRouter
    \/ MainListen
    \/ Receive
    \/ ServeGetCount
    \/ ServeCommitComment
    \/ ServePullComment
    \/ ServeNoRoute

Spec == Init /\ [][Next]_vars

SpecAnyWriter == InitAnyWriter /\ [][Next]_vars

----------------------------------------------------------------------------
(* Properties *)

Done == phase = "done"

StepsOf(op) == {i \in 1..Len(trace) : trace[i].op = op}

\* The calls of WriteError that were given an error.
ErrorWrites == {i \in StepsOf("WriteError") : trace[i].err # NoErr}

CreateSteps ==
    StepsOf("Repositories.CreateComment") \cup StepsOf("PullRequests.CreateComment")

IsDecimalText(s) == Len(s) >= 1 /\ \A i \in 1..Len(s) : s[i] \in Digits

\* A body chunk is the JSON number n followed by a newline.
IsJSONNumber(chunk, n) ==
    /\ chunk.json = "number"
    /\ Len(chunk.text) >= 2
    /\ chunk.text[Len(chunk.text)] = "\n"
    /\ LET ds == SubSeq(chunk.text, 1, Len(chunk.text) - 1)
       IN IsDecimalText(ds) /\ ParseDigits(ds, 0) = n

\* A body chunk is the JSON object {"error": msg}.
IsErrorEnvelope(chunk, msg) ==
    chunk.json = "object" /\ chunk.keys = {"error"} /\ chunk.error = msg

CommentHandlers == {"CommitComment", "PullComment"}

\* C1: a GET /{owner}/repos/count request whose listing call succeeds with N
\* repositories is answered 200, content type application/json; charset=utf-8,
\* body the JSON integer N, after exactly one listing call made with nil options.
C1_CountSuccess ==
    /\ (Done /\ req.shape = "count" /\ req.method = "GET") => handler = "GetCount"
    /\ (Done /\ handler = "GetCount" /\ remote.listErr = NoErr) =>
          /\ w.status = StatusOK
          /\ w.sentContentType = "application/json; charset=utf-8"
          /\ Len(w.body) = 1
          /\ IsJSONNumber(w.body[1], remote.listN)
          /\ Cardinality(StepsOf("Repositories.List")) = 1
          /\ \A i \in StepsOf("Repositories.List") :
                trace[i].opt = "nil" /\ trace[i].owner = req.params.owner

C1_Witness ==
    /\ Done /\ handler = "GetCount" /\ req.params.owner = S_octocat
    /\ remote.listErr = NoErr /\ remote.listN = 8
    /\ w.status = 200 /\ w.body = <<[json |-> "number", text |-> <<"8", "\n">>]>>

\* C2: a GET /{owner}/repos/count request whose listing call fails is answered
\* 500 with the JSON object {"error": message} and no count is written.
C2_CountFailure ==
    (Done /\ handler = "GetCount" /\ remote.listErr # NoErr) =>
        /\ w.status = 500
        /\ Len(w.body) = 1
        /\ IsErrorEnvelope(w.body[1], remote.listErr)
        /\ \A i \in 1..Len(w.body) : w.body[i].json # "number"
        /\ StepsOf("Encode") = {}

C2_Witness ==
    /\ Done /\ handler = "GetCount" /\ remote.listErr = "timeout"
    /\ w.status = 500 /\ w.body[1].error = "timeout"

\* C3: on both comment endpoints a failed user lookup is answered 500 with
\* {"error": message} and no comment-creation call is made; every
\* comment-creation call comes after the user lookup.
C3_LookupFailureStops ==
    /\ (Done /\ handler \in CommentHandlers /\ remote.userErr # NoErr) =>
          /\ w.status = 500
          /\ Len(w.body) = 1
          /\ IsErrorEnvelope(w.body[1], remote.userErr)
          /\ CreateSteps = {}
    /\ \A i \in CreateSteps : \E j \in StepsOf("Users.Get") : j < i

C3_Witness ==
    /\ Done /\ handler = "CommitComment"
    /\ req.path = JoinPath(<<S_octocat, S_repos, S_myrepo, S_abc123, S_comment>>)
    /\ remote.userErr = "not found"
    /\ w.status = 500 /\ w.body[1].error = "not found"
    /\ StepsOf("Users.Get") = {1}

\* C4: on both comment endpoints, when the user lookup succeeds the response is
\* 200 with an empty body whether comment creation succeeds or fails; the
\* handler writes nothing and no error envelope is produced.
C4_CreateErrorSwallowed ==
    (Done /\ handler \in CommentHandlers /\ remote.userErr = NoErr) =>
        /\ w.status = 200
        /\ w.body = <<>>
        /\ w.byServer
        /\ ErrorWrites = {}
        /\ Cardinality(CreateSteps) = 1

C4_Witness ==
    /\ Done /\ handler = "PullComment"
    /\ remote.userErr = NoErr /\ remote.createErr = "timeout"
    /\ \E i \in CreateSteps : trace[i].err = "timeout"
    /\ w.status = 200 /\ w.body = <<>>

C6_Scenario ==
    (Done /\ req.method = "POST"
          /\ req.path = JoinPath(<<S_octocat, S_pulls, S_42, S_abc123, S_srcmaingo,
                                   S_5, S_comment>>)) =>
        /\ handler = "PullComment"
        /\ remote.userErr = NoErr =>
              /\ w.status = 200 /\ w.body = <<>>
              /\ \E i \in StepsOf("PullRequests.CreateComment") :
                    /\ trace[i].number = 42
                    /\ trace[i].comment.CommitID = S_abc123
                    /\ trace[i].comment.Path = S_srcmaingo
                    /\ trace[i].comment.Position = 5

\* C7: WriteError with a non-nil error sets status 500, writes the JSON object
\* with the single key "error" holding the message and returns true; with a
\* nil error it leaves the response untouched and returns false.
C7_WriteErrorContract ==
    \A i \in StepsOf("WriteError") :
        LET s == trace[i]
        IN IF s.err # NoErr
           THEN /\ s.after.wroteHeader /\ s.after.status = 500
                /\ Len(s.after.body) = Len(s.before.body) + 1
                /\ IsErrorEnvelope(s.after.body[Len(s.after.body)], s.err)
                /\ s.ret = TRUE
           ELSE s.after = s.before /\ s.ret = FALSE

C7_Witness ==
    /\ Done
    /\ \E i \in StepsOf("WriteError") :
          /\ trace[i].err = "not found" /\ trace[i].ret = TRUE
          /\ trace[i].before.status = 0 /\ trace[i].after.status = 500

\* C8: the router is built and the server listens only if New returned no
\* error and a non-nil handle with a non-nil client; otherwise the process
\* terminates before the router is built and serves no request.
C8_FailFast ==
    /\ (router # <<>> \/ pc \in {"routed", "listening"} \/ phase # "idle") =>
          (newErr = NoErr /\ ~data.isNil /\ data.Client # "nil")
    /\ (pc # "start" /\ (newErr # NoErr \/ data.isNil \/ data.Client = "nil")) =>
          (pc = "fatal" /\ router = <<>> /\ phase = "idle")
    /\ pc = "fatal" => phase = "idle"

C8_Witness ==
    pc = "fatal" /\ newErr = "Access Token Invalid" /\ data.isNil /\ router = <<>>

\* C9: a request that reaches PullComment with a successful user lookup makes
\* exactly one pull-request comment-creation call, for pull request number on
\* owner/repo as given by the request's path parameters, with a comment whose
\* path, position and commit are the request's and whose author is the
\* resolved user.
C9_PullCommentTarget ==
    (Done /\ handler = "PullComment" /\ remote.userErr = NoErr) =>
        /\ Cardinality(StepsOf("PullRequests.CreateComment")) = 1
        /\ \A i \in StepsOf("PullRequests.CreateComment") :
              /\ trace[i].owner = req.params.owner
              /\ trace[i].repo \in {SplitPath(req.path)[k] :
                                       k \in 1..Len(SplitPath(req.path))}
              /\ IsDecimalText(req.params.number)
              /\ trace[i].number = ParseDigits(req.params.number, 0)
              /\ trace[i].comment.Path = req.params.path
              /\ trace[i].comment.Position = ParseDigits(req.params.position, 0)
              /\ trace[i].comment.CommitID = req.params.commit
              /\ trace[i].comment.User = [Login |-> req.params.owner]

\* C10: in every request, whatever succeeds or fails, WriteError writes an
\* error response at most once, for the first failing step, and no step of the
\* handler runs after it.
C10_AtMostOneErrorResponse ==
    Done =>
        /\ Cardinality(ErrorWrites) <= 1
        /\ Cardinality({k \in 1..Len(w.body) : w.body[k].json = "object"}) <= 1
        /\ \A i \in ErrorWrites :
              /\ i = Len(trace)
              /\ i > 1
              /\ trace[i - 1].op # "WriteError"
              /\ trace[i - 1].err = trace[i].err
              /\ \A j \in 1..(i - 2) : trace[j].err = NoErr

C10_Witness ==
    /\ Done /\ writer = "faulty" /\ handler = "GetCount"
    /\ remote.listErr = NoErr /\ ~remote.encodeOK
    /\ Cardinality(ErrorWrites) = 1
    /\ trace[Len(trace)].op = "WriteError" /\ trace[Len(trace)].err = "write failed"

============================================================================
